---- MODULE Spec2Model ----
(***************************************************************************)
(* KnowBe4 training report generator (src/kb4_train.py).                   *)
(*                                                                         *)
(* Three parts of KnowBe4ReportGenerator are modelled:                     *)
(*   - _paginated_get, the page-indexed fetch loop (SpecFetch);            *)
(*   - analyse_training_data, the compliance analysis (SpecAnalyse);       *)
(*   - generate_report, which fetches, analyses and writes (SpecReport).   *)
(***************************************************************************)
EXTENDS Integers, Sequences, FiniteSets, TLC

(***************************************************************************)
(* Bounds of the model                                                     *)
(***************************************************************************)
\* the upstream collection holds fewer than MaxPages + 1 full pages
MaxPages == 3
\* a caller calls _paginated_get at most MaxCalls times with its mapping
MaxCalls == 2

\* per_page = 500, "Max allowed by API"
PerPage == 500

(***************************************************************************)
(* Python values                                                           *)
(***************************************************************************)
\* Optional[T]: None is the empty sequence, a value v is <<v>>
None == <<>>
Some(v) == <<v>>

\* a dict is the set of its <<key, value>> items
EmptyDict == {}
DictGet(d, k) == (CHOOSE kv \in d : kv[1] = k)[2]
DictSet(d, k, v) == {kv \in d : kv[1] # k} \cup {<<k, v>>}
DictHas(d, k) == \E kv \in d : kv[1] = k

Min(a, b) == IF a < b THEN a ELSE b

(***************************************************************************)
(* _paginated_get                                                          *)
(***************************************************************************)
VARIABLES
    dataset,        \* the upstream collection behind the endpoint
    params,         \* the caller's params argument (None or a dict)
    paramsBefore,   \* the caller's params argument as it was before the last call
    fetchPc,        \* "idle", "returned" or "raised": how the last call ended
    all_results,    \* the list the last call returned
    requests,       \* the request_params of every requests.get of the last call
    failedAt,       \* the request of the last call that failed (0: none)
    failedKind,     \* how it failed
    calls           \* number of calls made

fetchVars == <<dataset, params, paramsBefore, fetchPc, all_results, requests,
               failedAt, failedKind, calls>>

\* how one request can fail
TransportFaults == {"timeout", "connection", "http_error"}
BodyFaults == {"invalid_json", "empty_body"}
FaultKinds == TransportFaults \cup BodyFaults

\* requests.get raises before `response` is assigned
RaisedByGet == {"timeout", "connection"}

\* the upstream API: page `page` of the collection, `per_page` records a page
ServePage(data, request_params) ==
    LET page == DictGet(request_params, "page")
        per_page == DictGet(request_params, "per_page")
        first == (page - 1) * per_page + 1
        last == Min(page * per_page, Len(data))
    IN  IF first > Len(data) THEN <<>> ELSE SubSeq(data, first, last)

\* `params or {}`: None and the empty dict are falsy
Truthy(p) == p # None /\ p[1] # EmptyDict

\* request_params = params or {}; request_params.update({page, per_page})
RequestParams(p, page) ==
    DictSet(DictSet(IF Truthy(p) THEN p[1] ELSE EmptyDict, "page", page),
            "per_page", PerPage)

\* the caller's mapping after the update: request_params is the caller's own
\* dict whenever that dict is truthy
ParamsAfterUpdate(p, page) ==
    IF Truthy(p) THEN Some(RequestParams(p, page)) ELSE p

\* the except handler reads response.text: `response` is a local that is
\* unbound until some requests.get of this call has returned
HandlerRaises(kind, responseBound) == kind \in RaisedByGet /\ ~responseBound

\* a stopping test that takes a full page for the last one
ShortPage_StopsOnFull(data) == Len(data) <= PerPage

\* the stopping test on a parsed page
ShortPage(data) == Len(data) < PerPage

\* One iteration of the while loop and, unless it breaks, the rest of the loop.
\* st: all_results, page, params, requests, responseBound.
\* faultAt/faultKind: the request (counted from 1) that fails, 0 for none.
RECURSIVE PaginatedGetLoop(_, _, _, _)
PaginatedGetLoop(data, faultAt, faultKind, st) ==
    LET request_params == RequestParams(st.params, st.page)
        sent == Append(st.requests, request_params)
        n == Len(sent)
        kind == IF n = faultAt THEN faultKind ELSE "ok"
        after == [st EXCEPT !.params = ParamsAfterUpdate(st.params, st.page),
                            !.requests = sent]
        page_data == ServePage(data, request_params)
    IN  IF kind \in TransportFaults
        THEN \* except requests.RequestException
             IF HandlerRaises(kind, st.responseBound)
             THEN [after EXCEPT !.raised = TRUE, !.failedAt = n, !.failedKind = kind]
             ELSE [after EXCEPT !.failedAt = n, !.failedKind = kind]
        ELSE IF kind \in BodyFaults
        THEN \* except json.JSONDecodeError
             [after EXCEPT !.failedAt = n, !.failedKind = kind]
        ELSE IF page_data = <<>>
        THEN \* if not data
             after
        ELSE LET extended == [after EXCEPT !.all_results = st.all_results \o page_data,
                                           !.responseBound = TRUE]
             IN  IF ShortPage(page_data)
                 THEN extended
                 ELSE PaginatedGetLoop(data, faultAt, faultKind,
                                       [extended EXCEPT !.page = st.page + 1])

PaginatedGetRun(data, p, faultAt, faultKind) ==
    PaginatedGetLoop(data, faultAt, faultKind,
        [all_results |-> <<>>, page |-> 1, params |-> p, requests |-> <<>>,
         responseBound |-> FALSE, raised |-> FALSE, failedAt |-> 0,
         failedKind |-> "ok"])

\* the sizes of the upstream collection: up to MaxPages pages
Remainders == {0, 1, 137, PerPage - 1}
DatasetSizes == {p * PerPage + r : p \in 0 .. MaxPages - 1, r \in Remainders}
                    \cup {MaxPages * PerPage}
Records(n) == [i \in 1 .. n |-> i]

\* the mappings get_users, get_training_campaigns and get_training_enrollments pass
CampaignIds == {1, 2}
ParamChoices == {None, Some({<<"status", "active">>}), Some(EmptyDict)}
                    \cup {Some({<<"campaign_id", c>>}) : c \in CampaignIds}

\* one call _paginated_get(endpoint, params) by a caller that keeps its mapping
PaginatedGet ==
    /\ calls < MaxCalls
    /\ \E faultAt \in 0 .. MaxPages + 1, faultKind \in FaultKinds :
        \E out \in {PaginatedGetRun(dataset, params, faultAt, faultKind)} :
            /\ paramsBefore' = params
            /\ params' = out.params
            /\ fetchPc' = IF out.raised THEN "raised" ELSE "returned"
            /\ all_results' = out.all_results
            /\ requests' = out.requests
            /\ failedAt' = out.failedAt
            /\ failedKind' = out.failedKind
            /\ calls' = calls + 1
            /\ UNCHANGED dataset

(***************************************************************************)
(* analyse_training_data                                                   *)
(***************************************************************************)
\* at most MaxUsers user records and MaxEnr enrollments are analysed
MaxUsers == 2
MaxEnr == 2
\* the wall clock runs from 0 to MaxTick ticks
MaxTick == 3
\* a due-date string has a resolution of one second, datetime.now() a finer
\* one: a second is TicksPerSecond clock ticks
TicksPerSecond == 2
\* analyse_training_data is called at most MaxRuns times on the same inputs
MaxRuns == 2

VARIABLES
    users,            \* the user records (each a dict)
    enrollments,      \* the enrollment records
    now,              \* the wall clock, in ticks
    firstRead,        \* the clock when the last analysis started
    analysePc,        \* "idle", "returned" or "raised": how the last analysis ended
    untrained_users,  \* the untrained-id set of the last analysis
    report,           \* the report the last analysis returned (None if it raised)
    prevPc,           \* analysePc, firstRead and report of the analysis before
    prevFirstRead,
    prevReport,
    runs              \* number of analyses made

analyseVars == <<users, enrollments, now, firstRead, analysePc, untrained_users,
                 report, prevPc, prevFirstRead, prevReport, runs>>

\* config.yaml: training.mandatory_campaigns and user_fields.optional
MandatoryCampaigns == <<"Security101">>
OptionalUserFields == <<"department">>

InList(x, list) == \E i \in 1 .. Len(list) : list[i] = x

\* A due-date string, by its shape: "iso" is YYYY-MM-DDTHH:MM:SSZ and denotes
\* second `sec`, "date_only" is YYYY-MM-DD, "empty" is ''.
IsoString(sec) == [shape |-> "iso", sec |-> sec]
DateOnlyString(sec) == [shape |-> "date_only", sec |-> sec]
EmptyString == [shape |-> "empty", sec |-> 0]

\* a parse that reads the seconds of the string as clock ticks
Strptime_SecondsAsTicks(s) == IF s.shape = "iso" THEN Some(s.sec) ELSE None

\* a parse that accepts a date without a time as midnight of that day
Strptime_Lenient(s) ==
    IF s.shape \in {"iso", "date_only"} THEN Some(s.sec * TicksPerSecond) ELSE None

\* datetime.strptime(s, '%Y-%m-%dT%H:%M:%SZ'): the instant in clock ticks, or
\* None for the ValueError of a string that does not match the format
Strptime(s) == IF s.shape = "iso" THEN Some(s.sec * TicksPerSecond) ELSE None

\* `if due_date:`: None and '' are falsy
DueTruthy(d) == d # None /\ d[1].shape # "empty"

\* a status test that forgets 'Passed'
NotCompleted_IgnoresPassed(status) == status # "Completed"

\* status not in {'Completed', 'Passed'}
TerminalStatuses == {"Completed", "Passed"}
NotCompleted(status) == status \notin TerminalStatuses

\* an inclusive comparison
Overdue_Inclusive(due, clock) == due <= clock

\* due_date < datetime.now()
Overdue(due, clock) == due < clock

\* user.get(field, 'N/A')
DictGetOr(d, k, default) == IF DictHas(d, k) THEN DictGet(d, k) ELSE default

\* user_lookup = {user['id']: user for user in users}: the last record of an id wins
UserIdsOf(us) == {DictGet(us[i], "id") : i \in 1 .. Len(us)}
UserLookup(us) ==
    [uid \in UserIdsOf(us) |->
        LET last == CHOOSE i \in 1 .. Len(us) :
                        /\ DictGet(us[i], "id") = uid
                        /\ \A j \in i + 1 .. Len(us) : DictGet(us[j], "id") # uid
        IN  us[last]]

\* The for loop over the enrollments, from enrollment i on; reads[i] is what
\* datetime.now() returns while enrollment i is examined. (user_enrollments,
\* which the loop fills, is read nowhere.)
RECURSIVE AnalyseLoop(_, _, _, _, _)
AnalyseLoop(enrs, mandatory, reads, i, untrained) ==
    IF i > Len(enrs)
    THEN [raised |-> FALSE, untrained |-> untrained]
    ELSE LET enrollment == enrs[i]
             user_id == enrollment.user.id
             due_date == enrollment.due_date
             added == untrained \cup {user_id}
         IN  IF InList(enrollment.campaign_name, mandatory)
                    /\ NotCompleted(enrollment.status)
             THEN IF DueTruthy(due_date)
                  THEN LET parsed == Strptime(due_date[1])
                       IN  IF parsed = None
                           THEN [raised |-> TRUE, untrained |-> untrained]
                           ELSE IF Overdue(parsed[1], reads[i])
                           THEN AnalyseLoop(enrs, mandatory, reads, i + 1, added)
                           ELSE AnalyseLoop(enrs, mandatory, reads, i + 1, untrained)
                  ELSE AnalyseLoop(enrs, mandatory, reads, i + 1, added)
             ELSE AnalyseLoop(enrs, mandatory, reads, i + 1, untrained)

\* iteration over a set of small int ids visits them in ascending order
RECURSIVE SetOrder(_)
SetOrder(S) ==
    IF S = {} THEN <<>>
    ELSE LET least == CHOOSE x \in S : \A y \in S : x <= y
         IN  <<least>> \o SetOrder(S \ {least})

\* **{field: user.get(field, 'N/A') for field in optional_user_fields}
RECURSIVE WithOptionalFields(_, _, _, _)
WithOptionalFields(row, user, fields, i) ==
    IF i > Len(fields) THEN row
    ELSE WithOptionalFields(
            DictSet(row, fields[i], DictGetOr(user, fields[i], "N/A")),
            user, fields, i + 1)

\* one untrained-user detail row
DetailRow(user) ==
    WithOptionalFields(
        {<<"Name", DictGet(user, "first_name") \o " " \o DictGet(user, "last_name")>>,
         <<"Email", DictGet(user, "email")>>,
         <<"Manager", DictGetOr(user, "manager_name", "N/A")>>},
        user, OptionalUserFields, 1)

\* [row for uid in untrained_users if uid in user_lookup]
DetailRows(untrained, lookup) ==
    LET order == SelectSeq(SetOrder(untrained), LAMBDA uid : uid \in DOMAIN lookup)
    IN  [k \in 1 .. Len(order) |-> DetailRow(lookup[order[k]])]

\* total_untrained = len(untrained_users)
TotalUntrained(untrained) == Cardinality(untrained)

\* round(p / q): to the nearest integer, a tie to the even one
RoundHalfEven(p, q) ==
    LET fl == p \div q
        twice == 2 * (p - fl * q)
    IN  IF twice < q THEN fl
        ELSE IF twice > q THEN fl + 1
        ELSE IF fl % 2 = 0 THEN fl ELSE fl + 1

\* round(((total_users - total_untrained) / total_users) * 100, 2) if total_users
\* else 0, in hundredths of a percent
CompletionRate(total_users, total_untrained) ==
    IF total_users # 0
    THEN RoundHalfEven((total_users - total_untrained) * 10000, total_users)
    ELSE 0

\* analyse_training_data(users, enrollments, mandatory_campaigns)
AnalyseTrainingDataRun(us, enrs, mandatory, reads) ==
    LET lookup == UserLookup(us)
        loop == AnalyseLoop(enrs, mandatory, reads, 1, {})
        total_users == Len(us)
        total_untrained == TotalUntrained(loop.untrained)
    IN  IF loop.raised
        THEN [raised |-> TRUE, untrained |-> loop.untrained, report |-> None]
        ELSE [raised |-> FALSE,
              untrained |-> loop.untrained,
              report |-> Some(
                [metrics |-> [TotalUsers |-> total_users,
                              TotalUntrainedUsers |-> total_untrained,
                              CompletionRate |->
                                  CompletionRate(total_users, total_untrained)],
                 untrained_users |-> DetailRows(loop.untrained, lookup)])]

\* what datetime.now() can return during one analysis of n enrollments that
\* starts at `from`: the clock never runs backwards
ClockReads(from, n) ==
    {r \in [1 .. n -> from .. MaxTick] : \A i \in 1 .. n - 1 : r[i] <= r[i + 1]}
LastRead(reads, from) == IF Len(reads) = 0 THEN from ELSE reads[Len(reads)]
FirstRead(reads, from) == IF Len(reads) = 0 THEN from ELSE reads[1]

\* the inputs
UserIds == {1, 2}
FirstNames == [uid \in UserIds |-> IF uid = 1 THEN "A" ELSE "C"]
LastNames == [uid \in UserIds |-> IF uid = 1 THEN "B" ELSE "D"]
Emails == [uid \in UserIds |-> IF uid = 1 THEN "a@x.com" ELSE "c@x.com"]
CoreUser(uid) ==
    {<<"id", uid>>, <<"first_name", FirstNames[uid]>>,
     <<"last_name", LastNames[uid]>>, <<"email", Emails[uid]>>}
\* user 1 comes with and without the optional keys
UserRecords ==
    {CoreUser(uid) : uid \in UserIds}
        \cup {CoreUser(1) \cup {<<"manager_name", "M">>, <<"department", "IT">>}}

CampaignNames == {"Security101", "Optional"}
Statuses == {"Completed", "Passed", "In Progress"}
DueSecs == {1}
DueDates == {None, Some(EmptyString)}
                \cup {Some(IsoString(s)) : s \in DueSecs}
                \cup {Some(DateOnlyString(s)) : s \in DueSecs}
\* every status and due-date for an enrollment still to complete in a mandatory
\* campaign; fewer for the enrollments the loop skips at its first two tests
EnrollmentRecords ==
    {e \in [user : [id : UserIds], campaign_name : CampaignNames,
            status : Statuses, due_date : DueDates] :
        /\ e.campaign_name = "Optional" =>
                /\ e.status = "In Progress"
                /\ e.due_date \in {None} \cup {Some(DateOnlyString(s)) : s \in DueSecs}
        /\ e.status = "Passed" =>
                e.due_date \in {Some(IsoString(s)) : s \in DueSecs}}

SeqsUpTo(S, n) == UNION {[1 .. k -> S] : k \in 0 .. n}

\* one call analyse_training_data(users, enrollments, mandatory_campaigns)
AnalyseTrainingData ==
    /\ runs < MaxRuns
    /\ \E reads \in ClockReads(now, Len(enrollments)) :
        \E out \in {AnalyseTrainingDataRun(users, enrollments, MandatoryCampaigns, reads)} :
            /\ analysePc' = IF out.raised THEN "raised" ELSE "returned"
            /\ untrained_users' = out.untrained
            /\ report' = out.report
            /\ firstRead' = FirstRead(reads, now)
            /\ now' = LastRead(reads, now)
            /\ prevPc' = analysePc
            /\ prevFirstRead' = firstRead
            /\ prevReport' = report
            /\ runs' = runs + 1
            /\ UNCHANGED <<users, enrollments>>

(***************************************************************************)
(* generate_report                                                         *)
(***************************************************************************)
VARIABLES
    reportPc,         \* "idle" or "done"
    got_users,        \* what get_users returned
    all_enrollments,  \* the enrollments fetched for the relevant campaigns
    metrics_file,     \* the metrics file: None until written
    untrained_file,   \* the untrained-users file: None until written
    errorLogged       \* the except clause of generate_report has logged an error

reportVars == <<reportPc, got_users, all_enrollments, metrics_file,
                untrained_file, errorLogged>>

\* the collection behind /training/campaigns
Campaigns ==
    <<[name |-> "Security101", campaign_id |-> 1],
      [name |-> "Optional", campaign_id |-> 2]>>
CampaignIdOf(name) ==
    Campaigns[CHOOSE i \in 1 .. Len(Campaigns) : Campaigns[i].name = name].campaign_id

\* the collection behind /training/enrollments under the filters of a request
EnrollmentsEndpoint(enrs, p) ==
    IF Truthy(p) /\ DictHas(p[1], "campaign_id")
    THEN SelectSeq(enrs, LAMBDA e :
            CampaignIdOf(e.campaign_name) = DictGet(p[1], "campaign_id"))
    ELSE enrs

\* A fault plan: the first request of fetch number `call` fails with `kind`
\* (call 0: no request fails). The collections here are shorter than a page,
\* so every fetch makes one request.
FaultPlans ==
    {[call |-> 0, kind |-> "ok"]}
        \cup [call : 1 .. 2 + Len(Campaigns), kind : FaultKinds]
FaultFor(plan, callNo) == IF plan.call = callNo THEN 1 ELSE 0

GetUsers(us, plan, callNo) ==
    PaginatedGetRun(us, Some({<<"status", "active">>}), FaultFor(plan, callNo), plan.kind)

GetTrainingCampaigns(plan, callNo) ==
    PaginatedGetRun(Campaigns, None, FaultFor(plan, callNo), plan.kind)

GetTrainingEnrollments(enrs, campaign_id, plan, callNo) ==
    LET p == IF campaign_id # 0
             THEN Some({<<"campaign_id", campaign_id>>})
             ELSE Some(EmptyDict)
    IN  PaginatedGetRun(EnrollmentsEndpoint(enrs, p), p, FaultFor(plan, callNo), plan.kind)

\* for campaign in relevant_campaigns: all_enrollments.extend(...)
RECURSIVE FetchEnrollments(_, _, _, _, _, _)
FetchEnrollments(enrs, relevant, j, plan, callNo, acc) ==
    IF j > Len(relevant)
    THEN [raised |-> FALSE, all_enrollments |-> acc]
    ELSE LET out == GetTrainingEnrollments(enrs, relevant[j].campaign_id, plan, callNo)
         IN  IF out.raised
             THEN [raised |-> TRUE, all_enrollments |-> acc]
             ELSE FetchEnrollments(enrs, relevant, j + 1, plan, callNo + 1,
                                   acc \o out.all_results)

\* the fetches of generate_report, up to the call of analyse_training_data
FetchInputs(us, enrs, plan) ==
    LET u == GetUsers(us, plan, 1)
        c == GetTrainingCampaigns(plan, 2)
        relevant == SelectSeq(c.all_results,
                        LAMBDA campaign : InList(campaign.name, MandatoryCampaigns))
        e == FetchEnrollments(enrs, relevant, 1, plan, 3, <<>>)
    IN  IF u.raised THEN [raised |-> TRUE, users |-> <<>>, all_enrollments |-> <<>>]
        ELSE IF c.raised \/ e.raised
        THEN [raised |-> TRUE, users |-> u.all_results,
              all_enrollments |-> e.all_enrollments]
        ELSE [raised |-> FALSE, users |-> u.all_results,
              all_enrollments |-> e.all_enrollments]

\* `if report['untrained_users']:` the untrained-users file is written for a
\* non-empty list only
UntrainedFile(rows) == IF rows # <<>> THEN Some(rows) ELSE None

\* generate_report(): the whole try block and its except clause
GenerateReport ==
    /\ reportPc = "idle"
    /\ reportPc' = "done"
    /\ \E plan \in FaultPlans :
        \E f \in {FetchInputs(users, enrollments, plan)} :
            /\ got_users' = f.users
            /\ all_enrollments' = f.all_enrollments
            /\ IF f.raised
               THEN /\ errorLogged' = TRUE
                    /\ metrics_file' = None
                    /\ untrained_file' = None
                    /\ UNCHANGED <<now, firstRead, analysePc, untrained_users, report,
                                   prevPc, prevFirstRead, prevReport, runs>>
               ELSE \E reads \in ClockReads(now, Len(f.all_enrollments)) :
                    \E out \in {AnalyseTrainingDataRun(f.users, f.all_enrollments,
                                                       MandatoryCampaigns, reads)} :
                        /\ analysePc' = IF out.raised THEN "raised" ELSE "returned"
                        /\ untrained_users' = out.untrained
                        /\ report' = out.report
                        /\ firstRead' = FirstRead(reads, now)
                        /\ now' = LastRead(reads, now)
                        /\ runs' = runs + 1
                        /\ UNCHANGED <<prevPc, prevFirstRead, prevReport>>
                        /\ errorLogged' = out.raised
                        /\ metrics_file' =
                            IF out.raised THEN None ELSE Some(out.report[1].metrics)
                        /\ untrained_file' =
                            IF out.raised THEN None
                            ELSE UntrainedFile(out.report[1].untrained_users)
    /\ UNCHANGED <<users, enrollments>>

(***************************************************************************)
(* Specifications                                                          *)
(***************************************************************************)
vars == <<fetchVars, analyseVars, reportVars>>

\* a caller about to fetch one upstream collection; nothing else has run
FetchInit ==
    /\ dataset \in {Records(n) : n \in DatasetSizes}
    /\ params \in ParamChoices
    /\ paramsBefore = params
    /\ fetchPc = "idle"
    /\ all_results = <<>>
    /\ requests = <<>>
    /\ failedAt = 0
    /\ failedKind = "ok"
    /\ calls = 0
    /\ users = <<>>
    /\ enrollments = <<>>
    /\ now = 0
    /\ firstRead = 0
    /\ analysePc = "idle"
    /\ untrained_users = {}
    /\ report = None
    /\ prevPc = "idle"
    /\ prevFirstRead = 0
    /\ prevReport = None
    /\ runs = 0
    /\ reportPc = "idle"
    /\ got_users = <<>>
    /\ all_enrollments = <<>>
    /\ metrics_file = None
    /\ untrained_file = None
    /\ errorLogged = FALSE

\* the inputs of the analysis: any users and enrollments of the bounded sets
AnalyseInit ==
    /\ users \in SeqsUpTo(UserRecords, MaxUsers)
    /\ enrollments \in SeqsUpTo(EnrollmentRecords, MaxEnr)
    /\ now = 0
    /\ firstRead = 0
    /\ analysePc = "idle"
    /\ untrained_users = {}
    /\ report = None
    /\ prevPc = "idle"
    /\ prevFirstRead = 0
    /\ prevReport = None
    /\ runs = 0
    /\ dataset = <<>>
    /\ params = None
    /\ paramsBefore = None
    /\ fetchPc = "idle"
    /\ all_results = <<>>
    /\ requests = <<>>
    /\ failedAt = 0
    /\ failedKind = "ok"
    /\ calls = 0
    /\ reportPc = "idle"
    /\ got_users = <<>>
    /\ all_enrollments = <<>>
    /\ metrics_file = None
    /\ untrained_file = None
    /\ errorLogged = FALSE

\* calls of _paginated_get on one upstream collection
FetchNext == PaginatedGet /\ UNCHANGED <<analyseVars, reportVars>>
SpecFetch == FetchInit /\ [][FetchNext]_vars

\* calls of analyse_training_data on one set of inputs
AnalyseNext == AnalyseTrainingData /\ UNCHANGED <<fetchVars, reportVars>>
SpecAnalyse == AnalyseInit /\ [][AnalyseNext]_vars

\* one run of generate_report; users and enrollments are the upstream collections
ReportNext == GenerateReport /\ UNCHANGED fetchVars
SpecReport == AnalyseInit /\ [][ReportNext]_vars

(***************************************************************************)
(* Properties of _paginated_get (SpecFetch)                                *)
(***************************************************************************)
PagesRequested == [i \in 1 .. Len(requests) |-> DictGet(requests[i], "page")]
UpTo(k) == [i \in 1 .. k |-> i]
\* the records of the full pages 1 .. k
FullPages(k) == SubSeq(dataset, 1, Min(k * PerPage, Len(dataset)))

\* C1: whatever request fails and however it fails, the call returns the
\* records accumulated before that request and raises nothing.
C1_NeverRaises ==
    calls > 0 /\ failedAt > 0 =>
        /\ fetchPc = "returned"
        /\ all_results = FullPages(failedAt - 1)

\* C2: without a failure, a collection served as k - 1 full pages and a short
\* last page is returned whole and in order, by the requests for pages
\* 1, 2, ..., k, each made once and none after the short page.
C2_ReturnsAllPagesInOrder ==
    (calls > 0 /\ failedAt = 0 /\ Len(dataset) % PerPage # 0) =>
        /\ fetchPc = "returned"
        /\ all_results = dataset
        /\ PagesRequested = UpTo((Len(dataset) \div PerPage) + 1)
        /\ \A i \in 1 .. Len(requests) : DictGet(requests[i], "per_page") = PerPage

\* the three-page collection of 500, 500 and 137 records has been fetched whole
C2_Witness ==
    /\ fetchPc = "returned"
    /\ failedAt = 0
    /\ Len(dataset) = 2 * PerPage + 137
    /\ Len(all_results) = 1137
    /\ PagesRequested = <<1, 2, 3>>

\* C3: a transport-level failure of the request for page k ends the call with
\* exactly the records of pages 1 .. k-1; page k is requested once and no
\* page after it.
C3_TransportFailureReturnsPrefix ==
    (calls > 0 /\ failedAt > 0 /\ failedKind \in {"timeout", "http_error", "connection"}) =>
        /\ fetchPc = "returned"
        /\ all_results = FullPages(failedAt - 1)
        /\ PagesRequested = UpTo(failedAt)

\* C10: the caller's params mapping is the same after the call as before it.
C10_ParamsUnchanged ==
    calls > 0 => params = paramsBefore

(***************************************************************************)
(* Properties of analyse_training_data (SpecAnalyse)                       *)
(***************************************************************************)
Returned == runs > 0 /\ analysePc = "returned"
Metrics == report[1].metrics
\* all clock reads of the last analysis gave the same instant
ReadAtOnce == firstRead = now

IsMandatory(e) == e.campaign_name \in {MandatoryCampaigns[i] : i \in 1 .. Len(MandatoryCampaigns)}
StillOpen(e) == IsMandatory(e) /\ e.status \notin {"Completed", "Passed"}
HasNoDue(e) == e.due_date = None \/ e.due_date = Some(EmptyString)
HasIsoDue(e) == e.due_date # None /\ e.due_date[1].shape = "iso"
DueTick(e) == e.due_date[1].sec * TicksPerSecond
\* the due-date of e lies before instant t
ElapsedBy(e, t) == HasIsoDue(e) /\ DueTick(e) < t
EnrollmentsOf(u) == {i \in 1 .. Len(enrollments) : enrollments[i].user.id = u}

\* C4: a user id is untrained exactly when one of its enrollments is in a
\* mandatory campaign, is neither Completed nor Passed, and has no due-date or
\* a due-date that has elapsed: elapsed at the first clock read of the
\* analysis suffices, elapsed at its last one is necessary. A user with
\* several such enrollments counts once.
C4_UntrainedIffOpenAndOverdue ==
    Returned =>
        /\ \A u \in UserIds :
            /\ (\E i \in EnrollmentsOf(u) :
                    /\ StillOpen(enrollments[i])
                    /\ HasNoDue(enrollments[i]) \/ ElapsedBy(enrollments[i], firstRead))
                => u \in untrained_users
            /\ u \in untrained_users
                => \E i \in EnrollmentsOf(u) :
                    /\ StillOpen(enrollments[i])
                    /\ HasNoDue(enrollments[i]) \/ ElapsedBy(enrollments[i], now)
        /\ untrained_users \subseteq UserIds
        /\ Metrics.TotalUntrainedUsers = Cardinality(untrained_users)

\* one user with two qualifying enrollments, one without a due-date and one
\* overdue, is counted once; the other user is not untrained
C4_Witness ==
    /\ Returned
    /\ Len(enrollments) = 2
    /\ EnrollmentsOf(1) = {1, 2}
    /\ StillOpen(enrollments[1]) /\ enrollments[1].due_date = None
    /\ StillOpen(enrollments[2]) /\ ElapsedBy(enrollments[2], firstRead)
    /\ untrained_users = {1}
    /\ Metrics.TotalUntrainedUsers = 1

\* C5 as stated: an In Progress enrollment of a mandatory campaign whose
\* due-date equals now marks its user untrained, and one whose due-date is a
\* tick after now does not.
C5_DueNowIsUntrained ==
    (Returned /\ ReadAtOnce) =>
        \A i \in 1 .. Len(enrollments) :
            LET e == enrollments[i]
            IN  (IsMandatory(e) /\ e.status = "In Progress" /\ HasIsoDue(e)) =>
                    /\ DueTick(e) = now => e.user.id \in untrained_users
                    /\ (DueTick(e) = now + 1 /\ EnrollmentsOf(e.user.id) = {i})
                            => e.user.id \notin untrained_users

\* C5 amended: the comparison is strict. An In Progress enrollment of a
\* mandatory campaign marks its user untrained when its due-date is before
\* now; with a due-date equal to now, or later, it does not.
C5_DueBoundaryIsStrict ==
    (Returned /\ ReadAtOnce) =>
        \A i \in 1 .. Len(enrollments) :
            LET e == enrollments[i]
            IN  (IsMandatory(e) /\ e.status = "In Progress" /\ HasIsoDue(e)) =>
                    /\ DueTick(e) < now => e.user.id \in untrained_users
                    /\ (DueTick(e) >= now /\ EnrollmentsOf(e.user.id) = {i})
                            => e.user.id \notin untrained_users

\* the only enrollment of a user is In Progress and due exactly now, and the
\* user is not untrained
C5_Witness ==
    /\ Returned /\ ReadAtOnce
    /\ \E i \in 1 .. Len(enrollments) :
        LET e == enrollments[i]
        IN  /\ IsMandatory(e) /\ e.status = "In Progress" /\ HasIsoDue(e)
            /\ DueTick(e) = now
            /\ EnrollmentsOf(e.user.id) = {i}
            /\ e.user.id \notin untrained_users

\* C6: the Completion Rate lies in [0, 100] (here in hundredths of a percent).
\* The claim adds that the rate is 0 exactly when there are no users.
C6_CompletionRateInRange ==
    Returned => Metrics.CompletionRate >= 0 /\ Metrics.CompletionRate <= 10000

\* C7: an enrollment of a user id that no user record has changes nothing in
\* the report: the report with it is the report without it.
C7_OrphanEnrollmentIgnored ==
    (/\ Returned /\ ReadAtOnce
     /\ enrollments # <<>>
     /\ enrollments[Len(enrollments)].user.id \notin UserIdsOf(users)) =>
        LET without == SubSeq(enrollments, 1, Len(enrollments) - 1)
            reads == [i \in 1 .. Len(without) |-> now]
        IN  report = AnalyseTrainingDataRun(users, without, MandatoryCampaigns, reads).report

\* C8 as stated: a second analysis of the same inputs ends as the first and
\* returns the same report, whatever time has passed.
C8_SecondRunIdentical ==
    runs >= 2 => analysePc = prevPc /\ report = prevReport

\* the clock has passed the due-date of an enrollment still to be completed
\* between the first read of the analysis before and the last read of this one
DuePassedBetweenRuns ==
    \E i \in 1 .. Len(enrollments) :
        /\ StillOpen(enrollments[i])
        /\ HasIsoDue(enrollments[i])
        /\ prevFirstRead <= DueTick(enrollments[i])
        /\ DueTick(enrollments[i]) < now

\* C8 amended: a second analysis of the same inputs ends as the first and
\* returns the same report unless the clock has passed, between the two, the
\* due-date of an enrollment still to be completed.
C8_IdenticalUnlessDuePassed ==
    (runs >= 2 /\ ~DuePassedBetweenRuns) => analysePc = prevPc /\ report = prevReport

\* time has passed between two analyses of inputs that hold an enrollment
\* with a due-date still to be completed, and both list the same untrained user
C8_Witness ==
    /\ runs = 2
    /\ prevFirstRead < firstRead
    /\ ~DuePassedBetweenRuns
    /\ \E i \in 1 .. Len(enrollments) :
            StillOpen(enrollments[i]) /\ HasIsoDue(enrollments[i])
    /\ report # None
    /\ report = prevReport
    /\ report[1].untrained_users # <<>>

(***************************************************************************)
(* Properties of generate_report (SpecReport)                              *)
(***************************************************************************)
\* analyse_training_data has been called by generate_report
Analysed == reportPc = "done" /\ analysePc # "idle"
NoFileWritten == metrics_file = None /\ untrained_file = None
\* a non-empty due-date string that does not match the format
Malformed(e) == e.due_date # None /\ e.due_date[1].shape \notin {"iso", "empty"}

\* C9 as stated: any enrollment with a due-date string that does not parse,
\* whatever its status or campaign, makes analyse_training_data raise;
\* generate_report logs the error and writes neither file.
C9_AnyMalformedDueAborts ==
    (Analysed /\ \E i \in 1 .. Len(all_enrollments) : Malformed(all_enrollments[i])) =>
        analysePc = "raised" /\ errorLogged /\ NoFileWritten

\* a malformed due-date on an enrollment whose due-date the analysis parses
ParsedMalformed(e) == StillOpen(e) /\ Malformed(e)

\* C9 amended: analyse_training_data raises exactly when a malformed, non-empty
\* due-date is carried by an enrollment of a mandatory campaign that is neither
\* Completed nor Passed; generate_report then logs the error and writes
\* neither file. Otherwise (a malformed due-date on other enrollments only, or
\* an empty one) the analysis returns and the metrics file is written.
C9_ParsedMalformedDueAborts ==
    Analysed =>
        IF \E i \in 1 .. Len(all_enrollments) : ParsedMalformed(all_enrollments[i])
        THEN analysePc = "raised" /\ errorLogged /\ NoFileWritten
        ELSE analysePc = "returned" /\ ~errorLogged /\ metrics_file # None

\* the analysis raised on a malformed due-date and no file was written
C9_Witness ==
    /\ Analysed
    /\ \E i \in 1 .. Len(all_enrollments) : ParsedMalformed(all_enrollments[i])
    /\ analysePc = "raised"
    /\ errorLogged
    /\ NoFileWritten

====
